---- MODULE Spec2Model ----
(***************************************************************************)
(* Model of the pokebet trading core (mock API of                          *)
(* src/pokemon-markets/js/data/mock-data.js).                              *)
(*                                                                         *)
(* JavaScript Numbers are IEEE-754 binary64 values.  They are modelled     *)
(* bit-exactly: a Number is a record [s, m, e] denoting s * m * 2^e, where *)
(* m is a natural number kept as a little-endian sequence of 15-bit limbs  *)
(* (TLC integers are 32 bits wide) and is either 0 or has exactly 53 bits. *)
(* s = 0 denotes NaN, s = 2 / -2 denote +Infinity / -Infinity.  Every      *)
(* arithmetic operator rounds to nearest, ties to even, as the language    *)
(* requires.  Exponent overflow and subnormals are outside the magnitudes  *)
(* the program handles (1e-4 .. 1e8) and are not modelled.                 *)
(***************************************************************************)
EXTENDS Integers, Sequences, FiniteSets, TLC

\* ------------------------------------------------------------------------
\* Natural numbers of arbitrary size (little-endian limbs, base 2^15)
\* ------------------------------------------------------------------------
LimbBits == 15
BASE == 32768
PrecBits == 53

RECURSIVE Pow2(_)
Pow2(n) == IF n = 0 THEN 1 ELSE 2 * Pow2(n - 1)

RECURSIVE IntBitLen(_)
IntBitLen(n) == IF n = 0 THEN 0 ELSE 1 + IntBitLen(n \div 2)

RECURSIVE BNorm(_)
BNorm(x) ==
  IF x = <<>> THEN x
  ELSE IF x[Len(x)] = 0 THEN BNorm(SubSeq(x, 1, Len(x) - 1)) ELSE x

RECURSIVE BFromInt(_)
BFromInt(n) == IF n = 0 THEN <<>> ELSE <<n % BASE>> \o BFromInt(n \div BASE)

RECURSIVE BAddC(_, _, _)
BAddC(x, y, c) ==
  IF x = <<>> /\ y = <<>> THEN (IF c = 0 THEN <<>> ELSE <<c>>)
  ELSE LET a == IF x = <<>> THEN 0 ELSE x[1]
           b == IF y = <<>> THEN 0 ELSE y[1]
           t == a + b + c
       IN  <<t % BASE>> \o BAddC(IF x = <<>> THEN x ELSE Tail(x),
                                 IF y = <<>> THEN y ELSE Tail(y),
                                 t \div BASE)

BAdd(x, y) == BAddC(x, y, 0)

\* x - y - c for x >= y + c
RECURSIVE BSubC(_, _, _)
BSubC(x, y, c) ==
  IF x = <<>> THEN <<>>
  ELSE LET b == IF y = <<>> THEN 0 ELSE y[1]
           t == x[1] - b - c
       IN  <<IF t < 0 THEN t + BASE ELSE t>> \o
           BSubC(Tail(x), IF y = <<>> THEN y ELSE Tail(y), IF t < 0 THEN 1 ELSE 0)

BSub(x, y) == BNorm(BSubC(x, y, 0))

\* -1, 0, 1 for normalised x, y
RECURSIVE BCmpAt(_, _, _)
BCmpAt(x, y, i) ==
  IF i = 0 THEN 0
  ELSE IF x[i] < y[i] THEN -1
  ELSE IF x[i] > y[i] THEN 1
  ELSE BCmpAt(x, y, i - 1)

BCmp(x, y) ==
  IF Len(x) < Len(y) THEN -1
  ELSE IF Len(x) > Len(y) THEN 1
  ELSE BCmpAt(x, y, Len(x))

\* x * k + c for 0 <= k, c < BASE
RECURSIVE BMulSmall(_, _, _)
BMulSmall(x, k, c) ==
  IF x = <<>> THEN (IF c = 0 THEN <<>> ELSE <<c>>)
  ELSE LET t == x[1] * k + c
       IN  <<t % BASE>> \o BMulSmall(Tail(x), k, t \div BASE)

RECURSIVE BMul(_, _)
BMul(x, y) ==
  IF y = <<>> \/ x = <<>> THEN <<>>
  ELSE BNorm(BAdd(BMulSmall(x, y[1], 0), <<0>> \o BMul(x, Tail(y))))

RECURSIVE Zeros(_)
Zeros(n) == IF n = 0 THEN <<>> ELSE <<0>> \o Zeros(n - 1)

\* x * 2^n
BShl(x, n) ==
  IF x = <<>> THEN x
  ELSE BNorm(Zeros(n \div LimbBits) \o BMulSmall(x, Pow2(n % LimbBits), 0))

\* floor(y / lo) for lo = 2^r, hi = 2^(LimbBits - r)
RECURSIVE BShrLimbs(_, _, _)
BShrLimbs(y, lo, hi) ==
  IF y = <<>> THEN <<>>
  ELSE <<(y[1] \div lo) + (IF Len(y) > 1 THEN (y[2] % lo) * hi ELSE 0)>> \o
       BShrLimbs(Tail(y), lo, hi)

\* floor(x / 2^n)
BShr(x, n) ==
  LET k == n \div LimbBits
      r == n % LimbBits
  IN  IF k >= Len(x) THEN <<>>
      ELSE BNorm(BShrLimbs(SubSeq(x, k + 1, Len(x)), Pow2(r), Pow2(LimbBits - r)))

BBitLen(x) ==
  IF x = <<>> THEN 0 ELSE LimbBits * (Len(x) - 1) + IntBitLen(x[Len(x)])

BIsOdd(x) == x /= <<>> /\ x[1] % 2 = 1

\* <<q, rb - q * d>> for the largest q <= qhat with q * d <= rb, given
\* p = qhat * d
RECURSIVE BDivFix(_, _, _, _)
BDivFix(rb, d, qhat, p) ==
  IF BCmp(p, rb) <= 0 THEN <<qhat, BSub(rb, p)>>
  ELSE BDivFix(rb, d, qhat - 1, BSub(p, d))

BDivTry(rb, d, qhat) == BDivFix(rb, d, qhat, BNorm(BMulSmall(d, qhat, 0)))

\* One step of long division by d, whose top limb is at least BASE / 2:
\* <<floor(r * BASE / d), r * BASE mod d>> for r < d.  The quotient limb is
\* estimated from the two top limbs of r * BASE and the top limb of d; the
\* estimate is never too small and at most 2 too large.
BDivLimb(r, d) ==
  LET n   == Len(d)
      rb  == IF r = <<>> THEN r ELSE <<0>> \o r
      top == (IF Len(rb) > n THEN rb[n + 1] * BASE ELSE 0) +
             (IF Len(rb) >= n THEN rb[n] ELSE 0)
      est == top \div d[n]
  IN  BDivTry(rb, d, IF est > BASE - 1 THEN BASE - 1 ELSE est)

\* k more limbs of the quotient of r * BASE^k by d, put below the limbs q:
\* <<quotient, remainder>>
RECURSIVE BDivSteps(_, _, _, _)
RECURSIVE BDivNext(_, _, _, _)
BDivSteps(r, d, k, q) ==
  IF k = 0 THEN <<q, r>> ELSE BDivNext(BDivLimb(r, d), d, k, q)

BDivNext(step, d, k, q) == BDivSteps(step[2], d, k - 1, <<step[1]>> \o q)

\* ------------------------------------------------------------------------
\* IEEE-754 binary64 (the JavaScript Number type)
\* ------------------------------------------------------------------------
NaN == [s |-> 0, m |-> <<>>, e |-> 0]
Infinity(sg) == [s |-> 2 * sg, m |-> <<>>, e |-> 0]
Zero == [s |-> 1, m |-> <<>>, e |-> 0]

IsNaN(a) == a.s = 0
IsFinite(a) == a.s = 1 \/ a.s = -1
IsZero(a) == IsFinite(a) /\ a.m = <<>>

\* the Number sg * q * 2^e, for q of 53 bits, or of 54 after a carry
RoundCarry(sg, q, e) ==
  IF BBitLen(q) > PrecBits THEN [s |-> sg, m |-> BShr(q, 1), e |-> e + 1]
  ELSE [s |-> sg, m |-> q, e |-> e]

\* q is n without its low sh bits; c compares those bits with half a unit
RoundUp(sg, q, e, c, sticky) ==
  RoundCarry(sg,
             IF c > 0 \/ (c = 0 /\ (sticky \/ BIsOdd(q))) THEN BAdd(q, <<1>>) ELSE q,
             e)

RoundShift(sg, n, e, sticky, sh, q) ==
  RoundUp(sg, q, e + sh, BCmp(BSub(n, BShl(q, sh)), BShl(<<1>>, sh - 1)), sticky)

RoundBits(sg, n, e, sticky, len) ==
  IF len <= PrecBits
  THEN [s |-> sg, m |-> BShl(n, PrecBits - len), e |-> e - (PrecBits - len)]
  ELSE RoundShift(sg, n, e, sticky, len - PrecBits, BShr(n, len - PrecBits))

\* sg * (n + sticky) * 2^e rounded to nearest, ties to even;  sticky tells
\* that the exact value lies strictly between n and n + 1 units.
RoundNumber(sg, n, e, sticky) ==
  IF n = <<>> THEN Zero ELSE RoundBits(sg, n, e, sticky, BBitLen(n))

\* the Number with the value of the integer n
Num(n) == IF n < 0 THEN RoundNumber(-1, BFromInt(-n), 0, FALSE)
          ELSE RoundNumber(1, BFromInt(n), 0, FALSE)

Neg(a) == IF IsZero(a) \/ IsNaN(a) THEN a ELSE [a EXCEPT !.s = -a.s]

Abs(a) == IF a.s < 0 THEN [a EXCEPT !.s = -a.s] ELSE a

\* a * b
Mul(a, b) ==
  IF ~IsFinite(a) \/ ~IsFinite(b) THEN NaN
  ELSE RoundNumber(a.s * b.s, BMul(a.m, b.m), a.e + b.e, FALSE)

\* a / b: the mantissas are scaled so that the divisor fills its limbs, the
\* quotient is developed to 4 limbs (60 bits) below the leading bit, and the
\* remainder tells whether bits were lost; then one rounding.
DivLimbs == 4
DivFill == DivLimbs * LimbBits - PrecBits

DivRound(sg, e, qr) == RoundNumber(sg, BNorm(qr[1]), e, qr[2] /= <<>>)

DivLead(sg, n, d, e, c) ==
  DivRound(sg, e, BDivSteps(IF c THEN BSub(n, d) ELSE n, d, DivLimbs,
                            <<IF c THEN 1 ELSE 0>>))

DivAligned(sg, n, d, e) == DivLead(sg, n, d, e, BCmp(n, d) >= 0)

Div(a, b) ==
  IF ~IsFinite(a) \/ ~IsFinite(b) THEN NaN
  ELSE IF IsZero(b) THEN (IF IsZero(a) THEN NaN ELSE Infinity(a.s * b.s))
  ELSE IF IsZero(a) THEN Zero
  ELSE DivAligned(a.s * b.s, BShl(a.m, DivFill), BShl(b.m, DivFill),
                  a.e - b.e - DivLimbs * LimbBits)

\* sa * x * 2^lo + sb * y * 2^lo, where c compares x with y
AddSigned(sa, sb, x, y, lo, c) ==
  IF c = 0 THEN Zero
  ELSE IF c > 0 THEN RoundNumber(sa, BSub(x, y), lo, FALSE)
  ELSE RoundNumber(sb, BSub(y, x), lo, FALSE)

AddMantissas(sa, sb, x, y, lo) ==
  IF sa = sb THEN RoundNumber(sa, BAdd(x, y), lo, FALSE)
  ELSE AddSigned(sa, sb, x, y, lo, BCmp(x, y))

AddAligned(a, b, lo) ==
  AddMantissas(a.s, b.s, BShl(a.m, a.e - lo), BShl(b.m, b.e - lo), lo)

\* a + b
Add(a, b) ==
  IF ~IsFinite(a) \/ ~IsFinite(b) THEN NaN
  ELSE IF IsZero(a) THEN b
  ELSE IF IsZero(b) THEN a
  ELSE AddAligned(a, b, IF a.e < b.e THEN a.e ELSE b.e)

\* a - b
Sub(a, b) == Add(a, Neg(b))

\* a < b  (false when either is NaN)
Lt(a, b) ==
  IF ~IsFinite(a) \/ ~IsFinite(b) THEN FALSE
  ELSE IF IsZero(a) THEN (~IsZero(b) /\ b.s = 1)
  ELSE IF IsZero(b) THEN a.s = -1
  ELSE IF a.s /= b.s THEN a.s < b.s
  ELSE LET less == a.e < b.e \/ (a.e = b.e /\ BCmp(a.m, b.m) < 0)
           more == a.e > b.e \/ (a.e = b.e /\ BCmp(a.m, b.m) > 0)
       IN  IF a.s = 1 THEN less ELSE more

Gt(a, b) == Lt(b, a)
Le(a, b) == IsFinite(a) /\ IsFinite(b) /\ ~Lt(b, a)
Ge(a, b) == Le(b, a)

\* a === b  (false when either is NaN)
StrictEq(a, b) == ~IsNaN(a) /\ ~IsNaN(b) /\ a = b

\* floor of a non-integer-scaled a, q being its mantissa without the
\* fraction bits
FloorOf(a, q) ==
  IF a.s = 1 THEN RoundNumber(1, q, 0, FALSE)
  ELSE RoundNumber(-1, IF BShl(q, -a.e) = a.m THEN q ELSE BAdd(q, <<1>>), 0, FALSE)

\* Math.floor(a)
MathFloor(a) ==
  IF ~IsFinite(a) \/ IsZero(a) \/ a.e >= 0 THEN a
  ELSE FloorOf(a, BShr(a.m, -a.e))

\* the Number a decimal literal n/d denotes (n, d exactly representable)
Dec(n, d) == Div(Num(n), Num(d))

\* the tolerance of the specification's "within floating tolerance 1e-9"
Tolerance == Dec(1, 1000000000)

\* |a - b| <= 1e-9
Near(a, b) == Le(Abs(Sub(a, b)), Tolerance)

\* ------------------------------------------------------------------------
\* Bounds of the model
\* ------------------------------------------------------------------------
\* API calls (placeTrade, addFunds) started in one behaviour
MaxCalls == 2

\* ------------------------------------------------------------------------
\* Mock data (mock-data.js)
\* ------------------------------------------------------------------------
mockMarkets == <<
  [id |-> 1, category |-> "card-prices", yesPrice |-> Dec(68, 100),
   noPrice |-> Dec(32, 100), totalVolume |-> 2450, status |-> "active"],
  [id |-> 2, category |-> "events", yesPrice |-> Dec(45, 100),
   noPrice |-> Dec(55, 100), totalVolume |-> 1820, status |-> "active"],
  [id |-> 3, category |-> "set-performance", yesPrice |-> Dec(72, 100),
   noPrice |-> Dec(28, 100), totalVolume |-> 3100, status |-> "active"],
  [id |-> 4, category |-> "card-prices", yesPrice |-> Dec(38, 100),
   noPrice |-> Dec(62, 100), totalVolume |-> 1950, status |-> "active"],
  [id |-> 5, category |-> "events", yesPrice |-> Dec(25, 100),
   noPrice |-> Dec(75, 100), totalVolume |-> 890, status |-> "active"],
  [id |-> 6, category |-> "set-performance", yesPrice |-> Dec(58, 100),
   noPrice |-> Dec(42, 100), totalVolume |-> 2680, status |-> "active"] >>

\* Dates are milliseconds.  Now0 is Date.now() as the page loads: a clock
\* reads more than a day past time 0 (a real one reads decades; the value is
\* kept within TLC's integers).  The mock records carry dates of the past.
Now0 == 1000000000
Date_2024_09_10 == 1
Date_2024_09_15 == 2
Date_2024_09_18 == 3

InitUser == [balance |-> Num(1000), totalDeposited |-> Num(1000),
             totalWithdrawn |-> Zero]

InitPositions == <<
  [id |-> <<"pos", 1>>, marketId |-> 1, side |-> "yes", shares |-> Num(25),
   avgPrice |-> Dec(65, 100), invested |-> Dec(1625, 100),
   purchaseDate |-> Date_2024_09_15],
  [id |-> <<"pos", 2>>, marketId |-> 3, side |-> "no", shares |-> Num(15),
   avgPrice |-> Dec(30, 100), invested |-> Dec(450, 100),
   purchaseDate |-> Date_2024_09_18] >>

InitTransactions == <<
  [id |-> <<"txn", 1>>, type |-> "deposit", amount |-> Num(1000),
   timestamp |-> Date_2024_09_10, details |-> [method |-> "demo_funding"]],
  [id |-> <<"txn", 2>>, type |-> "trade", amount |-> Neg(Dec(1625, 100)),
   timestamp |-> Date_2024_09_15,
   details |-> [marketId |-> 1, side |-> "yes", shares |-> Num(25),
                price |-> Dec(65, 100)]],
  [id |-> <<"txn", 3>>, type |-> "trade", amount |-> Neg(Dec(450, 100)),
   timestamp |-> Date_2024_09_18,
   details |-> [marketId |-> 3, side |-> "no", shares |-> Num(15),
                price |-> Dec(30, 100)]] >>

VARIABLES
  mockUser,          \* the ledger's user record
  mockPositions,     \* the position collection
  mockTransactions,  \* the transaction log
  pending,           \* API calls suspended on their simulated delay
  started,           \* number of API calls started
  settled,           \* the promise settled last: its call and outcome
  now,               \* Date.now()
  marketStatus,      \* the status field of each market of mockMarkets
  fetched,           \* the value the last fetchMarkets call resolved with
  valuation,         \* the last calculatePortfolioValue call and its result
  authManager,       \* the AuthManager singleton: currentUser, isAuthenticated
  localStorage,      \* the item stored under 'pokebet_session'
  marketCardManager, \* the MarketCardManager singleton
  portfolioManager,  \* the PortfolioManager singleton
  app,               \* the PokeBetApp instance
  notices            \* the events dispatched and toasts shown by the last step

\* what the API calls on the ledger leave alone
\* the state of the user interface
uiVars == <<authManager, localStorage, marketCardManager, portfolioManager, app,
            notices>>

viewVars == <<marketStatus, fetched, valuation, uiVars>>

vars == <<mockUser, mockPositions, mockTransactions, pending, started, settled, now,
          marketStatus, fetched, valuation, uiVars>>

\* ------------------------------------------------------------------------
\* Inputs
\* ------------------------------------------------------------------------
UnknownMarket == 99
Sides == {"yes", "no"}
\* 0 is invalid, 0.001 buys 0.00 shares, 3.23 buys 4.75 shares at 0.68
InvestmentOf323 == Dec(323, 100)
FixedInvestments == {Zero, Dec(1, 1000), InvestmentOf323}
\* 0.5 and 3 pass the validation of addFunds, 10001 does not
DepositAmounts == {Dec(1, 2), Num(3), Num(10001)}

\* the arguments of placeTrade calls; the two kinds of invalid argument are
\* each passed once
TradeInputs(balance) ==
  {<<1, side, investment>> :
     side \in Sides, investment \in (FixedInvestments \ {Zero}) \cup {balance}}
  \cup {<<UnknownMarket, "yes", InvestmentOf323>>, <<1, "yes", Zero>>}

NoCall == [id |-> 0, fn |-> "none", marketId |-> 0, side |-> "-", amount |-> Zero]
NoValue == [success |-> FALSE, shares |-> Zero, actualCost |-> Zero,
            price |-> Zero, newBalance |-> Zero, position |-> 0]

\* Array.prototype.findIndex over the indexes that pass the test, 1-based;
\* 0 when nothing matches
FindIndex(hits) ==
  IF hits = {} THEN 0 ELSE CHOOSE i \in hits : \A j \in hits : i <= j

\* mockMarkets.find(m => m.id === marketId), as an index
MarketIndex(marketId) ==
  FindIndex({i \in 1..Len(mockMarkets) : mockMarkets[i].id = marketId})

NoFetch == [category |-> "none", draws |-> <<>>, markets |-> <<>>]
NoSummary == [totalValue |-> Zero, totalInvested |-> Zero, pnl |-> Zero,
              pnlPercentage |-> Zero]
NoValuation ==
  [calls |-> 0, again |-> FALSE, positions |-> <<>>, markets |-> <<>>,
   summary |-> NoSummary]

\* the ledger as the module is loaded
InitLedger ==
  /\ mockUser = InitUser
  /\ mockPositions = InitPositions
  /\ mockTransactions = InitTransactions
  /\ pending = {}
  /\ started = 0
  /\ settled = [call |-> NoCall, outcome |-> "none", error |-> "", value |-> NoValue]
  /\ now = Now0

InitStatus == [i \in 1..Len(mockMarkets) |-> mockMarkets[i].status]

\* null; a value v that may be null is held as <<v>>
Null == <<>>

\* the singletons as their constructors leave them on a first visit, when
\* nothing is stored: the constructor of AuthManager finds no session
InitUI ==
  /\ authManager = [currentUser |-> Null, isAuthenticated |-> FALSE]
  /\ localStorage = Null
  /\ marketCardManager = [currentMarkets |-> <<>>, currentTradeData |-> Null]
  /\ portfolioManager =
       [positions |-> <<>>, markets |-> <<>>, portfolioSummary |-> NoSummary]
  /\ app = [currentMarkets |-> <<>>, currentSection |-> "markets",
            isLoading |-> FALSE, marketsLastUpdated |-> 0]
  /\ notices = <<>>

Init ==
  /\ InitLedger
  /\ marketStatus = InitStatus
  /\ fetched = NoFetch
  /\ valuation = NoValuation
  /\ InitUI

\* ------------------------------------------------------------------------
\* placeTrade (mock-data.js 301-375)
\* ------------------------------------------------------------------------
\* a validation that does not look at the balance
TradeErrorNoBalanceCheck(marketId, investment, balance) ==
  IF MarketIndex(marketId) = 0 THEN "Market not found"
  ELSE IF Le(investment, Zero) THEN "Investment amount must be greater than $0"
  ELSE ""

\* a validation that asks for an investment below the balance
TradeErrorStrictBalance(marketId, investment, balance) ==
  IF MarketIndex(marketId) = 0 THEN "Market not found"
  ELSE IF Le(investment, Zero) THEN "Investment amount must be greater than $0"
  ELSE IF Ge(investment, balance) THEN "Insufficient balance"
  ELSE ""

\* a validation that refuses an investment of less than a cent
TradeErrorMinimumInvestment(marketId, investment, balance) ==
  IF MarketIndex(marketId) = 0 THEN "Market not found"
  ELSE IF Lt(investment, Dec(1, 100)) THEN "Investment amount must be greater than $0"
  ELSE IF Gt(investment, balance) THEN "Insufficient balance"
  ELSE ""

\* the validation of placeTrade: the message of the error thrown, "" if none
TradeError(marketId, investment, balance) ==
  IF MarketIndex(marketId) = 0 THEN "Market not found"
  ELSE IF Le(investment, Zero) THEN "Investment amount must be greater than $0"
  ELSE IF Gt(investment, balance) THEN "Insufficient balance"
  ELSE ""

TradePrice(marketId, side) ==
  LET market == mockMarkets[MarketIndex(marketId)]
  IN  IF side = "yes" THEN market.yesPrice ELSE market.noPrice

\* Math.floor((investment / price) * 100) / 100
Hundred == Num(100)

TradeShares(investment, price) ==
  Div(MathFloor(Mul(Div(investment, price), Hundred)), Hundred)

\* shares * price
TradeCost(shares, price) == Mul(shares, price)

\* a deduction from the balance as it was when the call was started
DeductBalanceStale(balance, actualCost) == Sub(InitUser.balance, actualCost)

\* mockUser.balance -= actualCost
DeductBalance(balance, actualCost) == Sub(balance, actualCost)

\* a lookup whose result is tested for truthiness: the first position of the
\* collection (index 0 in the source) counts as not found
ExistingPositionIndexTruthy(positions, marketId, side) ==
  LET found == FindIndex({i \in 1..Len(positions) :
                   positions[i].marketId = marketId /\ positions[i].side = side})
  IN  IF found = 1 THEN 0 ELSE found

\* mockPositions.findIndex(...), 0 when there is none
ExistingPositionIndex(positions, marketId, side) ==
  FindIndex({i \in 1..Len(positions) :
               positions[i].marketId = marketId /\ positions[i].side = side})

MergedTotals(existingPosition, totalShares, totalInvested) ==
  [existingPosition EXCEPT !.shares = totalShares,
                           !.avgPrice = Div(totalInvested, totalShares),
                           !.invested = totalInvested]

\* the update of an existing position
MergedPosition(existingPosition, shares, actualCost) ==
  MergedTotals(existingPosition, Add(existingPosition.shares, shares),
               Add(existingPosition.invested, actualCost))

NewPosition(marketId, side, shares, price, actualCost, t) ==
  [id |-> <<"pos", t>>, marketId |-> marketId, side |-> side, shares |-> shares,
   avgPrice |-> price, invested |-> actualCost, purchaseDate |-> t]

\* an upsert that stamps the merged position with the time of the merge
UpsertPositionRedated(positions, marketId, side, shares, price, actualCost, t) ==
  LET existingPositionIndex == ExistingPositionIndex(positions, marketId, side)
  IN  IF existingPositionIndex > 0
      THEN [positions EXCEPT ![existingPositionIndex] =
              [MergedPosition(positions[existingPositionIndex], shares, actualCost)
                 EXCEPT !.purchaseDate = t]]
      ELSE Append(positions, NewPosition(marketId, side, shares, price, actualCost, t))

\* the position collection after the upsert
UpsertPosition(positions, marketId, side, shares, price, actualCost, t) ==
  LET existingPositionIndex == ExistingPositionIndex(positions, marketId, side)
  IN  IF existingPositionIndex > 0
      THEN [positions EXCEPT ![existingPositionIndex] =
              MergedPosition(positions[existingPositionIndex], shares, actualCost)]
      ELSE Append(positions, NewPosition(marketId, side, shares, price, actualCost, t))

NewTransaction(marketId, side, shares, price, actualCost, t) ==
  [id |-> <<"txn", t>>, type |-> "trade", amount |-> Neg(actualCost),
   timestamp |-> t,
   details |-> [marketId |-> marketId, side |-> side, shares |-> shares,
                price |-> price]]

\* Date.now() when a suspended call resumes: the timers of distinct calls
\* fire in distinct milliseconds
ResumeTime == now + 1

\* placeTrade up to its await: the call is suspended on its timer
PlaceTradeCall(marketId, side, investment) ==
  /\ started < MaxCalls
  /\ started' = started + 1
  /\ pending' = pending \cup {[id |-> started + 1, fn |-> "placeTrade",
                               marketId |-> marketId, side |-> side,
                               amount |-> investment]}
  /\ UNCHANGED <<mockUser, mockPositions, mockTransactions, settled, now>>

\* the body of placeTrade after its await, for the call c
PlaceTradeRun(c) ==
  /\ now' = ResumeTime
  /\ UNCHANGED started
  /\ \E error \in {TradeError(c.marketId, c.amount, mockUser.balance)} :
       IF error /= ""
       THEN /\ settled' = [call |-> c, outcome |-> "rejected", error |-> error,
                           value |-> NoValue]
            /\ UNCHANGED <<mockUser, mockPositions, mockTransactions>>
       ELSE \E price \in {TradePrice(c.marketId, c.side)} :
            \E shares \in {TradeShares(c.amount, price)} :
            \E actualCost \in {TradeCost(shares, price)} :
            \E balance \in {DeductBalance(mockUser.balance, actualCost)} :
            \E existingPositionIndex \in
                 {ExistingPositionIndex(mockPositions, c.marketId, c.side)} :
            \E positions \in {UpsertPosition(mockPositions, c.marketId, c.side,
                                             shares, price, actualCost, ResumeTime)} :
              /\ mockUser' = [mockUser EXCEPT !.balance = balance]
              /\ mockPositions' = positions
              /\ mockTransactions' =
                   Append(mockTransactions,
                          NewTransaction(c.marketId, c.side, shares, price,
                                         actualCost, ResumeTime))
              /\ settled' =
                   [call |-> c, outcome |-> "resolved", error |-> "",
                    value |-> [success |-> TRUE, shares |-> shares,
                               actualCost |-> actualCost, price |-> price,
                               newBalance |-> balance,
                               position |->
                                 IF existingPositionIndex > 0
                                 THEN positions[existingPositionIndex]
                                 ELSE positions[Len(positions)]]]

\* placeTrade after its await: runs to completion
PlaceTradeResume(c) ==
  /\ c \in pending
  /\ c.fn = "placeTrade"
  /\ pending' = pending \ {c}
  /\ PlaceTradeRun(c)

\* ------------------------------------------------------------------------
\* addFunds (mock-data.js 274-292)
\* ------------------------------------------------------------------------
TenThousand == Num(10000)

DepositError(amount) ==
  IF Le(amount, Zero) \/ Gt(amount, TenThousand)
  THEN "Invalid amount. Must be between $1 and $10,000."
  ELSE ""

UpdatedUser(user, amount) ==
  [user EXCEPT !.balance = Add(user.balance, amount),
               !.totalDeposited = Add(user.totalDeposited, amount)]

AddFundsCall(amount) ==
  /\ started < MaxCalls
  /\ started' = started + 1
  /\ pending' = pending \cup {[id |-> started + 1, fn |-> "addFunds",
                               marketId |-> 0, side |-> "-", amount |-> amount]}
  /\ UNCHANGED <<mockUser, mockPositions, mockTransactions, settled, now>>

AddFundsResume(c) ==
  /\ c \in pending
  /\ c.fn = "addFunds"
  /\ pending' = pending \ {c}
  /\ now' = ResumeTime
  /\ UNCHANGED <<started, mockPositions, mockTransactions>>
  /\ LET error == DepositError(c.amount)
     IN  IF error /= ""
         THEN /\ settled' = [call |-> c, outcome |-> "rejected", error |-> error,
                             value |-> NoValue]
              /\ UNCHANGED mockUser
         ELSE /\ mockUser' = UpdatedUser(mockUser, c.amount)
              /\ settled' = [call |-> c, outcome |-> "resolved", error |-> "",
                             value |-> [NoValue EXCEPT
                                          !.success = TRUE,
                                          !.newBalance = mockUser'.balance]]

\* ------------------------------------------------------------------------
\* fetchTransactions (mock-data.js 392-397)
\* ------------------------------------------------------------------------
\* the place of t in a list sorted by (a, b) => b.timestamp - a.timestamp:
\* behind every entry that is not older (the sort is stable)
RECURSIVE InsertByTimestamp(_, _)
InsertByTimestamp(sorted, t) ==
  IF sorted = <<>> THEN <<t>>
  ELSE IF sorted[1].timestamp >= t.timestamp
  THEN <<sorted[1]>> \o InsertByTimestamp(Tail(sorted), t)
  ELSE <<t>> \o sorted

\* [...log].sort((a, b) => b.timestamp - a.timestamp), entries taken in order
RECURSIVE SortByTimestamp(_, _)
SortByTimestamp(sorted, log) ==
  IF log = <<>> THEN sorted
  ELSE SortByTimestamp(InsertByTimestamp(sorted, log[1]), Tail(log))

FetchTransactionsCall ==
  /\ started < MaxCalls
  /\ started' = started + 1
  /\ pending' = pending \cup {[id |-> started + 1, fn |-> "fetchTransactions",
                               marketId |-> 0, side |-> "-", amount |-> Zero]}
  /\ UNCHANGED <<mockUser, mockPositions, mockTransactions, settled, now>>

\* a fetch that sorts the log itself, not a copy of it
FetchTransactionsResumeInPlace(c) ==
  /\ c \in pending
  /\ c.fn = "fetchTransactions"
  /\ pending' = pending \ {c}
  /\ mockTransactions' = SortByTimestamp(<<>>, mockTransactions)
  /\ settled' = [call |-> c, outcome |-> "resolved", error |-> "",
                 value |-> mockTransactions']
  /\ UNCHANGED <<mockUser, mockPositions, started, now>>

\* fetchTransactions after its await: resolves with a sorted copy of the log
FetchTransactionsResume(c) ==
  /\ c \in pending
  /\ c.fn = "fetchTransactions"
  /\ pending' = pending \ {c}
  /\ settled' = [call |-> c, outcome |-> "resolved", error |-> "",
                 value |-> SortByTimestamp(<<>>, mockTransactions)]
  /\ UNCHANGED <<mockUser, mockPositions, mockTransactions, started, now>>

Next ==
  \/ \E in \in TradeInputs(mockUser.balance) :
       PlaceTradeCall(in[1], in[2], in[3]) /\ UNCHANGED viewVars
  \/ \E c \in pending : PlaceTradeResume(c) /\ UNCHANGED viewVars
  \/ \E amount \in DepositAmounts : AddFundsCall(amount) /\ UNCHANGED viewVars
  \/ \E c \in pending : AddFundsResume(c) /\ UNCHANGED viewVars
  \/ FetchTransactionsCall /\ UNCHANGED viewVars
  \/ \E c \in pending : FetchTransactionsResume(c) /\ UNCHANGED viewVars

Spec == Init /\ [][Next]_vars

\* ------------------------------------------------------------------------
\* The ledger over market data of the documented type
\* ------------------------------------------------------------------------
\* @property {string} status - Market status (active, closed, resolved)
MarketStatuses == {"active", "closed", "resolved"}

\* The mock data ships with every market active and no code changes a
\* status; here the first market has any status its type allows, as market
\* data served by a backend may.
InitAnyStatus ==
  /\ InitLedger
  /\ marketStatus \in {[InitStatus EXCEPT ![1] = status] : status \in MarketStatuses}
  /\ fetched = NoFetch
  /\ valuation = NoValuation
  /\ InitUI

SpecStatus == InitAnyStatus /\ [][Next]_vars

TypeOK ==
  /\ IsFinite(mockUser.balance)
  /\ started \in Nat
  /\ now >= Now0

\* ------------------------------------------------------------------------
\* fetchMarkets (mock-data.js 221-249)
\* ------------------------------------------------------------------------
\* Math.max(a, b), Math.min(a, b) of numbers that are not NaN
MathMax(a, b) == IF Gt(b, a) THEN b ELSE a
MathMin(a, b) == IF Lt(b, a) THEN b ELSE a

\* the integer n for which n / 100 is closest to |x|, the larger of two such:
\* floor(|x| * 100 + 1/2) on the exact value of x
ToFixedDigits(x) ==
  IF x.e >= 0 THEN BShl(BMulSmall(x.m, 100, 0), x.e)
  ELSE BShr(BAdd(BMulSmall(x.m, 200, 0), BShl(<<1>>, -x.e)), 1 - x.e)

\* Number(x.toFixed(2)) for finite x
ToFixed2(x) == Div(RoundNumber(x.s, ToFixedDigits(x), 0, FALSE), Hundred)

Half == Dec(1, 2)
MinPrice == Dec(1, 100)
MaxPrice == Dec(99, 100)
Spread == Dec(2, 100)

\* Math.max(0.01, Math.min(0.99, price + (Math.random() - 0.5) * 0.02))
Perturbed(price, random) ==
  MathMax(MinPrice, MathMin(MaxPrice, Add(price, Mul(Sub(random, Half), Spread))))

\* the second map: both prices divided by their sum and rounded to 2 decimals
Normalised(market, total) ==
  [market EXCEPT !.yesPrice = ToFixed2(Div(market.yesPrice, total)),
                 !.noPrice = ToFixed2(Div(market.noPrice, total))]

NormalisedMarket(market) == Normalised(market, Add(market.yesPrice, market.noPrice))

\* the first map: draw is the pair of Math.random() values of this market
PerturbedMarket(market, draw) ==
  [market EXCEPT !.yesPrice = Perturbed(market.yesPrice, draw[1]),
                 !.noPrice = Perturbed(market.noPrice, draw[2])]

\* markets.filter(market => market.category === category), as indexes
RECURSIVE FilterCategory(_, _)
FilterCategory(category, i) ==
  IF i > Len(mockMarkets) THEN <<>>
  ELSE (IF category = "all" \/ mockMarkets[i].category = category
        THEN <<i>> ELSE <<>>) \o FilterCategory(category, i + 1)

\* the markets fetchMarkets(category) resolves with, draws[k] being the
\* random values of the k-th market that passes the filter
FetchedMarkets(category, draws) ==
  [k \in 1..Len(draws) |->
     NormalisedMarket(PerturbedMarket(mockMarkets[FilterCategory(category, 1)[k]],
                                      draws[k]))]

\* Math.random() returns a Number in [0, 1): the ends of the range, the
\* middle, and the two values that move a price by half a cent
MaxRandom == Sub(Num(1), Mul(Dec(1, 67108864), Dec(1, 134217728)))
RandomValues == {Zero, Dec(1, 4), Half, Dec(3, 4), MaxRandom}
Draws == RandomValues \X RandomValues

\* the calls made: one category with every pair of draws for each of its two
\* markets, and all markets with one pair of draws for each of them
FetchInputs ==
  {<<"events", <<d1, d2>>>> : d1 \in Draws, d2 \in Draws}
  \cup {<<"all", [k \in 1..Len(mockMarkets) |-> d]>> : d \in Draws}

\* fetchMarkets reads the constant mockMarkets and writes no state, so what
\* a call resolves with depends on no other call: its await is not modelled
\* and a behaviour makes one call.
FetchMarkets(category, draws) ==
  /\ fetched = NoFetch
  /\ fetched' = [category |-> category, draws |-> draws,
                 markets |-> FetchedMarkets(category, draws)]
  /\ UNCHANGED <<mockUser, mockPositions, mockTransactions, pending, started,
                 settled, now, marketStatus, valuation, uiVars>>

NextMarkets == \E in \in FetchInputs : FetchMarkets(in[1], in[2])

SpecMarkets == Init /\ [][NextMarkets]_vars

\* ------------------------------------------------------------------------
\* calculatePortfolioValue (mock-data.js 405-428)
\* ------------------------------------------------------------------------
\* calls of calculatePortfolioValue in one behaviour
MaxValuations == 2

\* totals carried over from the call before
CarriedTotals ==
  [totalValue |-> valuation.summary.totalValue,
   totalInvested |-> valuation.summary.totalInvested]

\* let totalValue = 0; let totalInvested = 0
StartTotals == [totalValue |-> Zero, totalInvested |-> Zero]

\* markets.find(m => m.id === marketId), as an index
FindMarket(markets, marketId) ==
  FindIndex({i \in 1..Len(markets) : markets[i].id = marketId})

\* a price that is the yes price whatever the side
CurrentPriceOfYes(position, market) == market.yesPrice

\* position.side === 'yes' ? market.yesPrice : market.noPrice
CurrentPrice(position, market) ==
  IF position.side = "yes" THEN market.yesPrice ELSE market.noPrice

\* the body of the forEach callback, found being the index of the market
AddPosition(totals, position, markets, found) ==
  IF found = 0 THEN totals
  ELSE [totalValue |->
          Add(totals.totalValue,
              Mul(position.shares, CurrentPrice(position, markets[found]))),
        totalInvested |-> Add(totals.totalInvested, position.invested)]

\* positions.forEach(...)
RECURSIVE ForEachPosition(_, _, _)
ForEachPosition(totals, positions, markets) ==
  IF positions = <<>> THEN totals
  ELSE ForEachPosition(AddPosition(totals, positions[1], markets,
                                   FindMarket(markets, positions[1].marketId)),
                       Tail(positions), markets)

SummaryOf(totals, pnl) ==
  [totalValue |-> totals.totalValue,
   totalInvested |-> totals.totalInvested,
   pnl |-> pnl,
   pnlPercentage |-> IF Gt(totals.totalInvested, Zero)
                     THEN Mul(Div(pnl, totals.totalInvested), Hundred)
                     ELSE Zero]

Summary(totals) == SummaryOf(totals, Sub(totals.totalValue, totals.totalInvested))

CalculatePortfolioValue(positions, markets) ==
  Summary(ForEachPosition(StartTotals, positions, markets))

\* Arguments: the two mock positions, a position on a market of another
\* category and one on a market no list holds
OtherPosition ==
  [id |-> <<"pos", 3>>, marketId |-> 2, side |-> "no", shares |-> Num(10),
   avgPrice |-> Dec(55, 100), invested |-> Dec(550, 100),
   purchaseDate |-> Date_2024_09_18]
OrphanPosition ==
  [id |-> <<"pos", 4>>, marketId |-> UnknownMarket, side |-> "yes",
   shares |-> Num(40), avgPrice |-> Dec(50, 100), invested |-> Num(20),
   purchaseDate |-> Date_2024_09_18]
PositionPool == {InitPositions[1], InitPositions[2], OtherPosition, OrphanPosition}

\* markets at which the mock positions are worth 20 and 3
QuotedMarkets ==
  <<[mockMarkets[1] EXCEPT !.yesPrice = Dec(80, 100), !.noPrice = Dec(20, 100)],
    [mockMarkets[3] EXCEPT !.yesPrice = Dec(80, 100), !.noPrice = Dec(20, 100)]>>

PositionLists ==
  {<<>>} \cup {<<p>> : p \in PositionPool}
  \cup {<<p, q>> : p \in PositionPool, q \in PositionPool}
  \cup {<<InitPositions[1], OrphanPosition, InitPositions[2]>>}

MarketLists ==
  {<<>>, mockMarkets, QuotedMarkets, <<mockMarkets[2], mockMarkets[5]>>}

\* calculatePortfolioValue is synchronous: one step.  again records that the
\* call has the arguments of the call before it.
Valuate(positions, markets) ==
  /\ valuation.calls < MaxValuations
  /\ valuation' =
       [calls |-> valuation.calls + 1,
        again |-> /\ valuation.calls > 0
                  /\ positions = valuation.positions
                  /\ markets = valuation.markets,
        positions |-> positions, markets |-> markets,
        summary |-> CalculatePortfolioValue(positions, markets)]
  /\ UNCHANGED <<mockUser, mockPositions, mockTransactions, pending, started,
                 settled, now, marketStatus, fetched, uiVars>>

NextValuate ==
  \E positions \in PositionLists : \E markets \in MarketLists :
    Valuate(positions, markets)

SpecValuate == Init /\ [][NextValuate]_vars

\* ------------------------------------------------------------------------
\* The application: PokeBetApp (src/js/config/supabase.js), PortfolioManager
\* (src/unnamed/part_001) and MarketCardManager (mock-data.js 1432-1970)
\* ------------------------------------------------------------------------
\* A handler runs to its first await, or to its end, in one step; what it
\* awaits is a suspended call of pending, and the rest of the handler runs in
\* the step that resumes the call.  The methods are operators on the record w
\* of what a handler may change: the four singletons, the suspended calls
\* and the notices of the step.

\* operations of the user or the environment in one behaviour
MaxRequests == 3

FiveMinutes == 5 * 60 * 1000

Sections == {"markets", "portfolio"}

\* window.dispatchEvent(new CustomEvent(name)) and showToast(message, name)
Notice(kind, name) == [kind |-> kind, name |-> name]

\* the calls a handler suspends on are numbered below every suspended call;
\* the calls of placeTrade and addFunds are numbered by started
NewId(calls) ==
  (CHOOSE i \in {c.id : c \in calls} \cup {0} :
     \A j \in {c.id : c \in calls} \cup {0} : i <= j) - 1

Suspend(w, fn) ==
  [w EXCEPT !.pending =
              @ \cup {[NoCall EXCEPT !.id = NewId(w.pending), !.fn = fn]}]

Notify(w, kind, name) == [w EXCEPT !.notices = Append(@, Notice(kind, name))]

\* the state a handler starts from, the calls of p being suspended
World(p) ==
  [authManager |-> authManager, localStorage |-> localStorage,
   marketCardManager |-> marketCardManager,
   portfolioManager |-> portfolioManager, app |-> app, pending |-> p,
   notices |-> <<>>]

\* the state a handler leaves
Becomes(w) ==
  /\ authManager' = w.authManager
  /\ localStorage' = w.localStorage
  /\ marketCardManager' = w.marketCardManager
  /\ portfolioManager' = w.portfolioManager
  /\ app' = w.app
  /\ pending' = w.pending
  /\ notices' = w.notices

\* PortfolioManager.updatePortfolioValues
UpdatePortfolioValues(w) ==
  IF w.portfolioManager.positions = <<>> \/ w.portfolioManager.markets = <<>>
  THEN w
  ELSE [w EXCEPT !.portfolioManager.portfolioSummary =
                   CalculatePortfolioValue(w.portfolioManager.positions,
                                           w.portfolioManager.markets)]

\* PortfolioManager.clearPortfolio
ClearPortfolio(w) ==
  [w EXCEPT !.portfolioManager.positions = <<>>,
            !.portfolioManager.portfolioSummary = NoSummary]

\* PortfolioManager.loadPortfolio up to its await
LoadPortfolio(w) ==
  IF ~w.authManager.isAuthenticated THEN ClearPortfolio(w)
  ELSE Suspend(w, "fetchPositions")

\* loadMarkets without its guard on isLoading
LoadMarketsUnguarded(w) == Suspend([w EXCEPT !.app.isLoading = TRUE], "fetchMarkets")


\* PokeBetApp.loadMarkets up to its await
LoadMarkets(w) ==
  IF w.app.isLoading THEN w
  ELSE Suspend([w EXCEPT !.app.isLoading = TRUE], "fetchMarkets")

\* PokeBetApp.handleSectionChange at the time t; marketsLastUpdated is
\* undefined, which || 0 makes 0
HandleSectionChange(w, sectionName, t) ==
  IF sectionName = "portfolio"
  THEN (IF w.authManager.isAuthenticated THEN LoadPortfolio(w) ELSE w)
  ELSE IF sectionName = "markets" /\ t - w.app.marketsLastUpdated > FiveMinutes
  THEN LoadMarkets(w)
  ELSE w

\* PokeBetApp.showSection
ShowSection(w, sectionName, t) ==
  HandleSectionChange([w EXCEPT !.app.currentSection = sectionName], sectionName, t)

\* the listeners of userLoggedIn, in the order they were added:
\* PortfolioManager's, then PokeBetApp.handleUserLoggedIn
UserLoggedIn(w) == LoadPortfolio(LoadPortfolio(Notify(w, "event", "userLoggedIn")))

\* PokeBetApp.handleUserLoggedOut, its argument having been through the
\* listener of PortfolioManager
HandleUserLoggedOut(w, t) ==
  IF w.app.currentSection = "portfolio" THEN ShowSection(w, "markets", t) ELSE w

\* the listeners of userLoggedOut
UserLoggedOut(w, t) ==
  HandleUserLoggedOut(ClearPortfolio(ClearPortfolio(
                        Notify(w, "event", "userLoggedOut"))), t)

\* the listeners of betCompleted: PortfolioManager's, then
\* PokeBetApp.handlebetCompleted
BetCompleted(w) == LoadMarkets(LoadPortfolio(Notify(w, "event", "betCompleted")))

\* the body of loadMarkets after its await resolves with markets, up to
\* its finally
MarketsLoaded(w, markets) ==
  Notify(UpdatePortfolioValues(UpdatePortfolioValues(
           [w EXCEPT !.app.currentMarkets = markets,
                     !.marketCardManager.currentMarkets = markets,
                     !.portfolioManager.markets = markets])),
         "event", "marketsUpdated")

\* the ledger and the probes of the API, which the shell does not write
apiVars == <<mockUser, mockPositions, mockTransactions, settled, now, marketStatus,
             fetched, valuation>>

\* loadMarkets(), as init, handleOnline and handleVisibilityChange call it
LoadMarketsCall ==
  /\ started < MaxRequests
  /\ started' = started + 1
  /\ Becomes(LoadMarkets(World(pending)))
  /\ UNCHANGED apiVars

\* what fetchMarkets() resolves with when Math.random() returns 0.25 for
\* every yes price and 0.75 for every no price, and when it always returns 0.5
MovedMarkets == FetchedMarkets("all", [k \in 1..Len(mockMarkets) |-> <<Dec(1, 4), Dec(3, 4)>>])
SteadyMarkets == FetchedMarkets("all", [k \in 1..Len(mockMarkets) |-> <<Half, Half>>])

\* loadMarkets after its await resolves with markets, through its finally
LoadMarketsResume(c, markets) ==
  /\ c \in pending
  /\ c.fn = "fetchMarkets"
  /\ \E w \in {MarketsLoaded(World(pending \ {c}), markets)} :
       Becomes([w EXCEPT !.app.isLoading = FALSE])
  /\ UNCHANGED <<started, apiVars>>

\* loadMarkets after its await, through catch and finally.  fetchMarkets of
\* the mock API always resolves; the catch clause is where a fetch that
\* rejects or a renderer that throws leads to.
LoadMarketsFailed(c) ==
  /\ c \in pending
  /\ c.fn = "fetchMarkets"
  /\ \E w \in {Notify(World(pending \ {c}), "toast", "error")} :
       Becomes([w EXCEPT !.app.isLoading = FALSE])
  /\ UNCHANGED <<started, apiVars>>

\* a click on a navigation button: handleSectionNavigation
SectionClick(section) ==
  /\ started < MaxRequests
  /\ started' = started + 1
  /\ section /= app.currentSection
  /\ Becomes(ShowSection(World(pending), section, now))
  /\ UNCHANGED apiVars

\* loadPortfolio after its await: fetchPositions resolves with a copy of
\* the position collection
LoadPortfolioResume(c) ==
  /\ c \in pending
  /\ c.fn = "fetchPositions"
  /\ Becomes(UpdatePortfolioValues(
               [World(pending \ {c}) EXCEPT !.portfolioManager.positions = mockPositions]))
  /\ UNCHANGED <<started, apiVars>>

\* ------------------------------------------------------------------------
\* Trading through the modal: MarketCardManager with either AuthManager
\* ------------------------------------------------------------------------
\* The two copies of MarketCardManager (mock-data.js 893-1431 and 1432-1970)
\* differ in the name of the event, tradeCompleted or betCompleted, and in
\* the wording of their messages; the second one is modelled.  mock tells
\* which AuthManager is loaded: the one of mock-data.js 477-879, which keeps
\* a session in localStorage, or the one of src/js/components/auth.js.

\* AuthManager.saveSession at the time t.  JSON.stringify followed by
\* JSON.parse gives a finite Number back unchanged, and the balance is finite.
SaveSession(w, t) ==
  IF w.authManager.currentUser = Null THEN w
  ELSE [w EXCEPT !.localStorage =
                   <<[parses |-> TRUE, user |-> w.authManager.currentUser[1],
                      timestamp |-> t]>>]

\* AuthManager.updateBalance, up to its await in auth.js
UpdateBalance(w, newBalance, mock, t) ==
  IF w.authManager.currentUser = Null THEN w
  ELSE IF mock
  THEN SaveSession([w EXCEPT !.authManager.currentUser[1].balance = newBalance], t)
  ELSE [w EXCEPT !.authManager.currentUser[1].balance = newBalance]

\* MarketCardManager.closeModal
CloseModal(w) == [w EXCEPT !.marketCardManager.currentTradeData = Null]

\* handleTradeSubmit from the success toast on: the message reads
\* this.currentTradeData.side, which throws a TypeError when currentTradeData
\* is null; the catch clause then shows the error
AnnounceTrade(w) ==
  IF w.marketCardManager.currentTradeData = Null
  THEN Notify(w, "toast", "error")
  ELSE BetCompleted(Notify(w, "toast", "success"))

\* handleTradeSubmit after placeTrade has resolved with result
TradePlaced(w, result, mock, t) ==
  AnnounceTrade(CloseModal(UpdateBalance(w, result.newBalance, mock, t)))

\* markets whose trade buttons are clicked, and the amounts typed
ClickedMarkets == {1}
TypedInvestments == {Zero, InvestmentOf323, Num(1025)}

\* handleTradeClick and showTradingModal
HandleTradeClick(marketId, side) ==
  /\ \E w \in {World(pending)} :
     \E hits \in {{i \in 1..Len(w.marketCardManager.currentMarkets) :
                     w.marketCardManager.currentMarkets[i].id = marketId}} :
       Becomes(IF ~w.authManager.isAuthenticated THEN Notify(w, "toast", "warning")
               ELSE IF hits = {} THEN Notify(w, "toast", "error")
               ELSE [w EXCEPT !.marketCardManager.currentTradeData =
                       <<[market |-> w.marketCardManager.currentMarkets[FindIndex(hits)],
                          side |-> side]>>])
  /\ UNCHANGED <<started, apiVars>>

\* handleTradeSubmit up to its await
HandleTradeSubmit(investment) ==
  /\ started < MaxRequests
  /\ started' = started + 1
  /\ marketCardManager.currentTradeData /= Null
  /\ \E w \in {World(pending)} :
       Becomes(IF ~Gt(investment, Zero) THEN Notify(w, "toast", "error")
               ELSE IF w.authManager.currentUser = Null
               THEN Notify(w, "toast", "error")
               ELSE IF Gt(investment, w.authManager.currentUser[1].balance)
               THEN Notify(w, "toast", "error")
               ELSE [w EXCEPT !.pending =
                       @ \cup {[id |-> started + 1, fn |-> "placeTrade",
                                marketId |-> w.marketCardManager.currentTradeData[1].market.id,
                                side |-> w.marketCardManager.currentTradeData[1].side,
                                amount |-> investment]}])
  /\ UNCHANGED apiVars

\* handleTradeSubmit after its await
HandleTradeSubmitResume(c, mock) ==
  /\ c \in pending
  /\ c.fn = "placeTrade"
  /\ PlaceTradeRun(c)
  /\ \E w \in {World(pending \ {c})} :
       Becomes(IF settled'.outcome = "resolved"
               THEN TradePlaced(w, settled'.value, mock, now')
               ELSE Notify(w, "toast", "error"))
  /\ UNCHANGED <<started, marketStatus, fetched, valuation>>

\* ------------------------------------------------------------------------
\* AuthManager of mock-data.js 477-879
\* ------------------------------------------------------------------------
MaxAge == 24 * 60 * 60 * 1000

SignedOutManager == [currentUser |-> Null, isAuthenticated |-> FALSE]

\* loadSession with a session of exactly maxAge taken as valid
LoadSessionInclusive(w, t) ==
  IF w.localStorage = Null THEN w
  ELSE IF ~w.localStorage[1].parses THEN [w EXCEPT !.localStorage = Null]
  ELSE IF t - w.localStorage[1].timestamp <= MaxAge
  THEN [w EXCEPT !.authManager = [currentUser |-> <<w.localStorage[1].user>>,
                                  isAuthenticated |-> TRUE]]
  ELSE [w EXCEPT !.localStorage = Null]

\* AuthManager.loadSession at the time t
LoadSession(w, t) ==
  IF w.localStorage = Null THEN w
  ELSE IF ~w.localStorage[1].parses THEN [w EXCEPT !.localStorage = Null]
  ELSE IF t - w.localStorage[1].timestamp < MaxAge
  THEN [w EXCEPT !.authManager = [currentUser |-> <<w.localStorage[1].user>>,
                                  isAuthenticated |-> TRUE]]
  ELSE [w EXCEPT !.localStorage = Null]

\* the amounts of the quick buttons and the custom form
TypedDeposits == {Zero, Num(50)}

\* handleLoginSubmit up to its await
HandleLoginSubmit ==
  /\ started < MaxRequests
  /\ started' = started + 1
  /\ Becomes(Suspend(World(pending), "authenticateUser"))
  /\ UNCHANGED apiVars

\* handleLoginSubmit after its await: authenticateUser resolves with a copy
\* of mockUser, and login(user) runs
HandleLoginResume(c) ==
  /\ c \in pending
  /\ c.fn = "authenticateUser"
  /\ \E w \in {World(pending \ {c})} :
       Becomes(Notify(UserLoggedIn(SaveSession(
                        [w EXCEPT !.authManager = [currentUser |-> <<mockUser>>,
                                                   isAuthenticated |-> TRUE]],
                        now)),
                      "toast", "success"))
  /\ UNCHANGED <<started, apiVars>>

\* AuthManager.logout
Logout ==
  /\ \E w \in {World(pending)} :
       Becomes(UserLoggedOut(Notify([w EXCEPT !.authManager = SignedOutManager,
                                              !.localStorage = Null],
                                    "toast", "success"),
                             now))
  /\ UNCHANGED <<started, apiVars>>

\* handleCustomAmountSubmit and handleAddFunds up to the await
HandleAddFunds(amount) ==
  /\ started < MaxRequests
  /\ started' = started + 1
  /\ \E w \in {World(pending)} :
       Becomes(IF ~Gt(amount, Zero) THEN Notify(w, "toast", "error")
               ELSE IF ~w.authManager.isAuthenticated THEN Notify(w, "toast", "error")
               ELSE [w EXCEPT !.pending =
                       @ \cup {[NoCall EXCEPT !.id = started + 1, !.fn = "addFunds",
                                              !.amount = amount]}])
  /\ UNCHANGED apiVars

\* handleAddFunds after its await; addFunds resolves with the object it
\* assigned to mockUser
HandleAddFundsResume(c) ==
  /\ AddFundsResume(c)
  /\ \E w \in {World(pending \ {c})} :
       Becomes(IF settled'.outcome = "resolved"
               THEN Notify(Notify(SaveSession([w EXCEPT !.authManager.currentUser =
                                                          <<mockUser'>>],
                                              now'),
                                  "toast", "success"),
                           "event", "balanceUpdated")
               ELSE Notify(w, "toast", "error"))
  /\ UNCHANGED <<marketStatus, fetched, valuation>>

\* the page is loaded again elapsed milliseconds later: the modules are
\* evaluated anew, and the constructor of AuthManager loads the session
ReloadAfter == {1, MaxAge - 1, MaxAge}

Reload(elapsed) ==
  /\ started < MaxRequests
  /\ started' = started + 1
  /\ now' = now + elapsed
  /\ mockUser' = InitUser
  /\ mockPositions' = InitPositions
  /\ mockTransactions' = InitTransactions
  /\ settled' = [call |-> NoCall, outcome |-> "none", error |-> "", value |-> NoValue]
  /\ Becomes(LoadSession(
       [authManager |-> SignedOutManager, localStorage |-> localStorage,
        marketCardManager |-> [currentMarkets |-> <<>>, currentTradeData |-> Null],
        portfolioManager |-> [positions |-> <<>>, markets |-> <<>>,
                              portfolioSummary |-> NoSummary],
        app |-> [currentMarkets |-> <<>>, currentSection |-> "markets",
                 isLoading |-> FALSE, marketsLastUpdated |-> 0],
        pending |-> {}, notices |-> <<>>],
       now'))
  /\ UNCHANGED <<marketStatus, fetched, valuation>>

\* the stored item is replaced by text JSON.parse rejects; storage is open
\* to the user and to every script of the origin
CorruptSession ==
  /\ localStorage /= Null
  /\ localStorage[1].parses
  /\ localStorage' = <<[localStorage[1] EXCEPT !.parses = FALSE]>>
  /\ UNCHANGED <<mockUser, mockPositions, mockTransactions, pending, started, settled,
                 now, marketStatus, fetched, valuation, authManager,
                 marketCardManager, portfolioManager, app, notices>>

\* the application with the AuthManager of mock-data.js
NextMock ==
  \/ LoadMarketsCall
  \/ \E c \in pending : LoadMarketsResume(c, MovedMarkets)
  \/ \E section \in Sections : SectionClick(section)
  \/ \E c \in pending : LoadPortfolioResume(c)
  \/ \E marketId \in ClickedMarkets : \E side \in Sides :
       HandleTradeClick(marketId, side)
  \/ \E investment \in TypedInvestments : HandleTradeSubmit(investment)
  \/ \E c \in pending : HandleTradeSubmitResume(c, TRUE)
  \/ HandleLoginSubmit
  \/ \E c \in pending : HandleLoginResume(c)
  \/ Logout
  \/ \E amount \in TypedDeposits : HandleAddFunds(amount)
  \/ \E c \in pending : HandleAddFundsResume(c)

SpecMock == Init /\ [][NextMock]_vars

\* one AuthManager over several loads of the page
NextSession ==
  \/ HandleLoginSubmit
  \/ \E c \in pending : HandleLoginResume(c)
  \/ \E c \in pending : LoadPortfolioResume(c)
  \/ Logout
  \/ \E amount \in TypedDeposits : HandleAddFunds(amount)
  \/ \E c \in pending : HandleAddFundsResume(c)
  \/ \E elapsed \in ReloadAfter : Reload(elapsed)
  \/ CorruptSession

SpecSession == Init /\ [][NextSession]_vars

\* ------------------------------------------------------------------------
\* AuthManager of src/js/components/auth.js
\* ------------------------------------------------------------------------
\* user_metadata.balance of the sessions Supabase hands out: unset, which
\* || 0 makes 0, or 1000
SessionBalances == {Zero, Num(1000)}

\* handleSupabaseSession(session), as loadSession and the SIGNED_IN branch
\* of the listener of init call it
HandleSupabaseSession(balance) ==
  /\ started < MaxRequests
  /\ started' = started + 1
  /\ \E w \in {World(pending)} :
       Becomes(UserLoggedIn([w EXCEPT !.authManager =
                               [currentUser |-> <<[balance |-> balance]>>,
                                isAuthenticated |-> TRUE]]))
  /\ UNCHANGED apiVars

\* the SIGNED_OUT branch of the listener of init
SignedOut ==
  /\ authManager' = SignedOutManager
  /\ notices' = <<>>
  /\ UNCHANGED <<mockUser, mockPositions, mockTransactions, pending, started, settled,
                 now, marketStatus, fetched, valuation, localStorage,
                 marketCardManager, portfolioManager, app>>

\* logout up to its await
SupabaseLogout ==
  /\ started < MaxRequests
  /\ started' = started + 1
  /\ Becomes(Suspend(World(pending), "signOut"))
  /\ UNCHANGED apiVars

\* logout after its await; signOut resolves with an error or without
SupabaseLogoutResume(c, error) ==
  /\ c \in pending
  /\ c.fn = "signOut"
  /\ \E w \in {World(pending \ {c})} :
       Becomes(IF error THEN Notify(w, "toast", "error")
               ELSE UserLoggedOut(Notify([w EXCEPT !.authManager = SignedOutManager],
                                         "toast", "success"),
                                  now))
  /\ UNCHANGED <<started, apiVars>>

\* handleCustomAmountSubmit and handleAddFunds up to the await of
\* saveUserMetadata
SupabaseHandleAddFunds(amount) ==
  /\ started < MaxRequests
  /\ started' = started + 1
  /\ \E w \in {World(pending)} :
       Becomes(IF ~Gt(amount, Zero) THEN Notify(w, "toast", "error")
               ELSE IF ~w.authManager.isAuthenticated THEN Notify(w, "toast", "error")
               ELSE Suspend([w EXCEPT !.authManager.currentUser[1].balance =
                                        Add(@, amount)],
                            "saveUserMetadata"))
  /\ UNCHANGED apiVars

\* handleAddFunds after its await: the detail of balanceUpdated reads
\* this.currentUser.balance, which throws a TypeError when currentUser is null
SupabaseHandleAddFundsResume(c) ==
  /\ c \in pending
  /\ c.fn = "saveUserMetadata"
  /\ \E w \in {Notify(World(pending \ {c}), "toast", "success")} :
       Becomes(IF w.authManager.currentUser = Null THEN Notify(w, "toast", "error")
               ELSE Notify(w, "event", "balanceUpdated"))
  /\ UNCHANGED <<started, apiVars>>

\* the application with the AuthManager of src/js/components/auth.js
NextSupabase ==
  \/ LoadMarketsCall
  \/ \E c \in pending : LoadMarketsResume(c, MovedMarkets)
  \/ \E section \in Sections : SectionClick(section)
  \/ \E c \in pending : LoadPortfolioResume(c)
  \/ \E marketId \in ClickedMarkets : \E side \in Sides :
       HandleTradeClick(marketId, side)
  \/ \E investment \in TypedInvestments : HandleTradeSubmit(investment)
  \/ \E c \in pending : HandleTradeSubmitResume(c, FALSE)
  \/ \E balance \in SessionBalances : HandleSupabaseSession(balance)
  \/ SignedOut
  \/ SupabaseLogout
  \/ \E c \in pending : \E error \in BOOLEAN : SupabaseLogoutResume(c, error)
  \/ \E amount \in TypedDeposits : SupabaseHandleAddFunds(amount)
  \/ \E c \in pending : SupabaseHandleAddFundsResume(c)

SpecSupabase == Init /\ [][NextSupabase]_vars

\* the application without trades and deposits, with fetches that fail
NextShell ==
  \/ LoadMarketsCall
  \/ \E c \in pending : \E markets \in {MovedMarkets, SteadyMarkets} :
       LoadMarketsResume(c, markets)
  \/ \E c \in pending : LoadMarketsFailed(c)
  \/ \E section \in Sections : SectionClick(section)
  \/ \E c \in pending : LoadPortfolioResume(c)
  \/ \E balance \in SessionBalances : HandleSupabaseSession(balance)
  \/ SignedOut
  \/ SupabaseLogout
  \/ \E c \in pending : \E error \in BOOLEAN : SupabaseLogoutResume(c, error)

SpecShell == Init /\ [][NextShell]_vars

\* ------------------------------------------------------------------------
\* Properties
\* ------------------------------------------------------------------------
One == Num(1)

\* the step settles a placeTrade call
TradeSettles == settled'.call.id /= settled.call.id /\ settled'.call.fn = "placeTrade"
TradeResolves == TradeSettles /\ settled'.outcome = "resolved"
TradeResolved == settled.call.fn = "placeTrade" /\ settled.outcome = "resolved"

KnownMarketIds == {mockMarkets[i].id : i \in 1..Len(mockMarkets)}

\* the position held for a key, as a set (empty when there is none)
PositionsOf(positions, marketId, side) ==
  {i \in 1..Len(positions) :
     positions[i].marketId = marketId /\ positions[i].side = side}

\* C1: in every reachable state the ledger balance is at least 0.
C1_BalanceNeverNegative == Ge(mockUser.balance, Zero)

\* C2: a placeTrade call with an unknown market, an investment <= 0 or an
\* investment above the balance is rejected and leaves the balance, the
\* positions and the transaction log as they were; any other call resolves
\* and, in the same step, deducts its cost from the balance, holds a position
\* for its key that grew by its shares and appends its transaction.
C2_Step ==
  TradeSettles =>
    LET c == settled'.call
        v == settled'.value
        invalid == \/ c.marketId \notin KnownMarketIds
                   \/ Le(c.amount, Zero)
                   \/ Gt(c.amount, mockUser.balance)
        old == PositionsOf(mockPositions, c.marketId, c.side)
        new == PositionsOf(mockPositions', c.marketId, c.side)
    IN  IF invalid
        THEN /\ settled'.outcome = "rejected"
             /\ mockUser' = mockUser
             /\ mockPositions' = mockPositions
             /\ mockTransactions' = mockTransactions
        ELSE /\ settled'.outcome = "resolved"
             /\ mockUser'.balance = Sub(mockUser.balance, v.actualCost)
             /\ new /= {}
             /\ \A i \in new :
                  mockPositions'[i].shares =
                    IF i \in old THEN Add(mockPositions[i].shares, v.shares)
                    ELSE v.shares
             /\ Len(mockTransactions') = Len(mockTransactions) + 1
             /\ SubSeq(mockTransactions', 1, Len(mockTransactions)) = mockTransactions
             /\ mockTransactions'[Len(mockTransactions')].type = "trade"
             /\ mockTransactions'[Len(mockTransactions')].amount = Neg(v.actualCost)

\* C2: every step that settles a placeTrade call is all-or-nothing.
C2_TradeAtomic == [][C2_Step]_vars

\* a trade was rejected for lack of funds after another trade had gone through
C2_Witness ==
  /\ settled.call.fn = "placeTrade"
  /\ settled.error = "Insufficient balance"
  /\ Len(mockTransactions) > Len(InitTransactions)

\* the costs of the trades made since the start, oldest first
RECURSIVE TradeCosts(_, _)
TradeCosts(log, i) ==
  IF i > Len(log) THEN <<>>
  ELSE (IF log[i].type = "trade" THEN <<Neg(log[i].amount)>> ELSE <<>>) \o
       TradeCosts(log, i + 1)

\* ((balance - costs[1]) - costs[2]) - ...
RECURSIVE SubAll(_, _)
SubAll(balance, costs) ==
  IF costs = <<>> THEN balance ELSE SubAll(Sub(balance, costs[1]), Tail(costs))

\* costs[1] + costs[2] + ...
RECURSIVE SumAll(_)
SumAll(costs) ==
  IF costs = <<>> THEN Zero ELSE Add(costs[1], SumAll(Tail(costs)))

\* C3: a placeTrade call that resolves checked its investment against the very
\* balance it deducts its cost from, whatever other calls were in flight; so,
\* while no deposit has been made, the balance is the initial balance less the
\* cost of every trade that went through (taken off one by one, and within
\* 1e-9 of the initial balance less their sum).
C3_Step ==
  /\ TradeResolves =>
       /\ Le(settled'.call.amount, mockUser.balance)
       /\ mockUser'.balance = Sub(mockUser.balance, settled'.value.actualCost)
  /\ mockUser'.totalDeposited = InitUser.totalDeposited =>
       LET costs == TradeCosts(mockTransactions', Len(InitTransactions) + 1)
       IN  /\ mockUser'.balance = SubAll(InitUser.balance, costs)
           /\ Near(mockUser'.balance, Sub(InitUser.balance, SumAll(costs)))

\* C3: every step checks and deducts against one balance, and the balance is the initial one less the costs.
C3_NoInterleavedCheckAndDeduct == [][C3_Step]_vars

\* two trades went through, the one started second wholly while the first
\* was suspended
C3_Witness ==
  /\ started = 2
  /\ pending = {}
  /\ TradeResolved
  /\ settled.call.id = 1
  /\ Len(mockTransactions) = Len(InitTransactions) + 2
  /\ Lt(Zero, settled.value.actualCost)

\* C4: a trade that goes through costs at most the investment asked for.
C4_CostWithinInvestment ==
  TradeResolved => Le(settled.value.actualCost, settled.call.amount)

\* C5: the newBalance a trade returns is the balance before it less its cost,
\* is the balance stored after it, and is at least 0.
C5_Step ==
  TradeResolves =>
    /\ StrictEq(settled'.value.newBalance,
                Sub(mockUser.balance, settled'.value.actualCost))
    /\ StrictEq(settled'.value.newBalance, mockUser'.balance)
    /\ Ge(settled'.value.newBalance, Zero)

\* C5: every step that resolves a trade returns the balance it stored, which is >= 0.
C5_NewBalance == [][C5_Step]_vars

\* C6: no two positions of the collection have the same market and side.
C6_OnePositionPerKey ==
  \A i, j \in 1..Len(mockPositions) :
    (mockPositions[i].marketId = mockPositions[j].marketId /\
     mockPositions[i].side = mockPositions[j].side) => i = j

\* a trade was merged into the position its key already had
C6_Witness ==
  /\ TradeResolved
  /\ Lt(Zero, settled.value.shares)
  /\ Lt(settled.value.shares, settled.value.position.shares)

\* C7: a trade merged into an existing position adds its shares and its cost
\* to it, and the position's avgPrice is then invested / shares (within 1e-9).
C7_Step ==
  TradeResolves =>
    \A i \in PositionsOf(mockPositions, settled'.call.marketId, settled'.call.side) :
      LET old == mockPositions[i]
          new == mockPositions'[i]
      IN  /\ StrictEq(new.shares, Add(old.shares, settled'.value.shares))
          /\ StrictEq(new.invested, Add(old.invested, settled'.value.actualCost))
          /\ Near(new.avgPrice, Div(new.invested, new.shares))

\* C7: every merge adds shares and cost and sets avgPrice = invested / shares.
C7_MergeAverages == [][C7_Step]_vars

\* C8: a trade merged into an existing position leaves the position's
\* purchaseDate, id, marketId and side, and every other position, as they were.
C8_Step ==
  TradeResolves =>
    \A i \in PositionsOf(mockPositions, settled'.call.marketId, settled'.call.side) :
      /\ Len(mockPositions') = Len(mockPositions)
      /\ mockPositions'[i].purchaseDate = mockPositions[i].purchaseDate
      /\ mockPositions'[i].id = mockPositions[i].id
      /\ mockPositions'[i].marketId = mockPositions[i].marketId
      /\ mockPositions'[i].side = mockPositions[i].side
      /\ \A j \in 1..Len(mockPositions) : j /= i => mockPositions'[j] = mockPositions[j]

\* C8: every merge keeps purchaseDate, id, marketId, side and the other positions.
C8_MergeFrame == [][C8_Step]_vars

\* a trade was merged, later, into a position opened since the start
C8_Witness ==
  /\ TradeResolved
  /\ settled.value.position.purchaseDate > Now0
  /\ settled.value.position.purchaseDate < now
  /\ Lt(settled.value.shares, settled.value.position.shares)

\* C9: every position has invested = shares * avgPrice (within 1e-9).
C9_InvestedIsSharesTimesAvgPrice ==
  \A i \in 1..Len(mockPositions) :
    Near(mockPositions[i].invested,
         Mul(mockPositions[i].shares, mockPositions[i].avgPrice))

\* C10: every position has shares >= 0, invested >= 0 and 0 < avgPrice < 1.
C10_PositionWellFormed ==
  \A i \in 1..Len(mockPositions) :
    /\ Ge(mockPositions[i].shares, Zero)
    /\ Ge(mockPositions[i].invested, Zero)
    /\ Lt(Zero, mockPositions[i].avgPrice)
    /\ Lt(mockPositions[i].avgPrice, One)

\* the step settles an addFunds / a fetchTransactions call
DepositSettles == settled'.call.id /= settled.call.id /\ settled'.call.fn = "addFunds"
DepositResolves == DepositSettles /\ settled'.outcome = "resolved"
FetchSettles ==
  settled'.call.id /= settled.call.id /\ settled'.call.fn = "fetchTransactions"

\* C11: a placeTrade call that resolves appends exactly one transaction, of
\* type trade and amount -actualCost; no step of placeTrade, addFunds or
\* fetchTransactions modifies, reorders or removes an entry of the log.
C11_Step ==
  /\ Len(mockTransactions') >= Len(mockTransactions)
  /\ SubSeq(mockTransactions', 1, Len(mockTransactions)) = mockTransactions
  /\ TradeResolves =>
       /\ Len(mockTransactions') = Len(mockTransactions) + 1
       /\ mockTransactions'[Len(mockTransactions')].type = "trade"
       /\ mockTransactions'[Len(mockTransactions')].amount =
            Neg(settled'.value.actualCost)
  /\ FetchSettles => mockTransactions' = mockTransactions

\* C11: every step keeps the log and a trade appends its one transaction.
C11_LogAppendOnly == [][C11_Step]_vars

\* a fetch returned the log newest first, a trade of this run at its head,
\* and the log itself is still oldest first
C11_Witness ==
  /\ settled.call.fn = "fetchTransactions"
  /\ Len(mockTransactions) > Len(InitTransactions)
  /\ settled.value[1] = mockTransactions[Len(mockTransactions)]
  /\ SubSeq(mockTransactions, 1, Len(InitTransactions)) = InitTransactions

\* C12: an addFunds call that resolves appends exactly one transaction, of
\* type deposit and with the amount deposited.
C12_Step ==
  DepositResolves =>
    /\ Len(mockTransactions') = Len(mockTransactions) + 1
    /\ mockTransactions'[Len(mockTransactions')].type = "deposit"
    /\ StrictEq(mockTransactions'[Len(mockTransactions')].amount, settled'.call.amount)

\* C12: every deposit made is recorded by one deposit transaction.
C12_DepositRecorded == [][C12_Step]_vars

\* C13: a placeTrade call on a market that exists and is not active is
\* rejected and leaves the balance, the positions and the log as they were.
C13_Step ==
  (/\ TradeSettles
   /\ settled'.call.marketId \in KnownMarketIds
   /\ marketStatus[MarketIndex(settled'.call.marketId)] /= "active") =>
    /\ settled'.outcome = "rejected"
    /\ mockUser' = mockUser
    /\ mockPositions' = mockPositions
    /\ mockTransactions' = mockTransactions

C14_Step ==
  TradeSettles =>
    LET c == settled'.call
        unknown == c.marketId \notin KnownMarketIds
        nonPositive == Le(c.amount, Zero)
        excessive == Gt(c.amount, mockUser.balance)
    IN  /\ (settled'.error = "Market not found") <=> unknown
        /\ (settled'.error = "Investment amount must be greater than $0") <=>
             (~unknown /\ nonPositive)
        /\ (settled'.error = "Insufficient balance") <=>
             (~unknown /\ ~nonPositive /\ excessive)
        /\ (settled'.outcome = "rejected") <=> (settled'.error /= "")
        /\ (~unknown /\ ~nonPositive /\ StrictEq(c.amount, mockUser.balance)) =>
             settled'.outcome = "resolved"

\* C14: every placeTrade call settles with the error of its first failed check.
C14_TradeErrors == [][C14_Step]_vars

\* a trade of the whole balance went through
C14_Witness ==
  /\ TradeResolved
  /\ Lt(Zero, settled.value.actualCost)
  /\ settled.call.amount = Add(settled.value.newBalance, settled.value.actualCost)
  /\ settled.value.newBalance = Sub(settled.call.amount, settled.value.actualCost)
  /\ Lt(settled.value.newBalance, One)

Cent == Dec(1, 100)

\* C15: every market a fetchMarkets call resolves with has yesPrice + noPrice
\* within 0.01 of 1 and both prices strictly between 0 and 1.
C15_PricesSumNearOne ==
  \A k \in 1..Len(fetched.markets) :
    /\ Le(Abs(Sub(Add(fetched.markets[k].yesPrice, fetched.markets[k].noPrice), One)),
          Cent)
    /\ Lt(Zero, fetched.markets[k].yesPrice) /\ Lt(fetched.markets[k].yesPrice, One)
    /\ Lt(Zero, fetched.markets[k].noPrice) /\ Lt(fetched.markets[k].noPrice, One)

\* a price in whole cents
CentsOf(price) ==
  LET digits == ToFixedDigits(price)
  IN  IF digits = <<>> THEN 0 ELSE digits[1]

\* C16: the two prices of every market a fetchMarkets call resolves with,
\* rounded to 2 decimals, sum to exactly 1.00.
C16_RoundedPricesSumToOne ==
  \A k \in 1..Len(fetched.markets) :
    CentsOf(fetched.markets[k].yesPrice) + CentsOf(fetched.markets[k].noPrice) = 100

\* the positions whose market is in the list, in order
RECURSIVE Valued(_, _)
Valued(positions, markets) ==
  IF positions = <<>> THEN <<>>
  ELSE Valued(SubSeq(positions, 1, Len(positions) - 1), markets) \o
       (IF \E i \in 1..Len(markets) : markets[i].id = positions[Len(positions)].marketId
        THEN <<positions[Len(positions)]>> ELSE <<>>)

\* shares * price of the position's side at the first market with its id
ValueOf(position, markets) ==
  LET i == CHOOSE i \in 1..Len(markets) :
             /\ markets[i].id = position.marketId
             /\ \A j \in 1..(i - 1) : markets[j].id /= position.marketId
  IN  Mul(position.shares,
          IF position.side = "yes" THEN markets[i].yesPrice ELSE markets[i].noPrice)

\* 0 + v(p1) + v(p2) + ..., summed in order
RECURSIVE SumValue(_, _)
SumValue(positions, markets) ==
  IF positions = <<>> THEN Zero
  ELSE Add(SumValue(SubSeq(positions, 1, Len(positions) - 1), markets),
           ValueOf(positions[Len(positions)], markets))

RECURSIVE SumInvested(_)
SumInvested(positions) ==
  IF positions = <<>> THEN Zero
  ELSE Add(SumInvested(SubSeq(positions, 1, Len(positions) - 1)),
           positions[Len(positions)].invested)

\* C17: calculatePortfolioValue returns totalValue = the sum of shares * price
\* of the position's side and totalInvested = the sum of invested, over the
\* positions whose market is in the list; pnl = totalValue - totalInvested;
\* pnlPercentage = pnl / totalInvested * 100 if totalInvested > 0, else 0.
\* Positions with invested 16.25 and 4.50 worth 20 and 3 give 20.75, 23, 2.25.
C17_PortfolioSummary ==
  valuation.calls > 0 =>
    LET held == Valued(valuation.positions, valuation.markets)
        totalValue == SumValue(held, valuation.markets)
        totalInvested == SumInvested(held)
        summary == valuation.summary
    IN  /\ summary.totalValue = totalValue
        /\ summary.totalInvested = totalInvested
        /\ summary.pnl = Sub(totalValue, totalInvested)
        /\ summary.pnlPercentage =
             IF Gt(totalInvested, Zero)
             THEN Mul(Div(Sub(totalValue, totalInvested), totalInvested), Hundred)
             ELSE Zero
        /\ (held = InitPositions /\ valuation.markets = QuotedMarkets) =>
             /\ summary.totalInvested = Dec(2075, 100)
             /\ summary.totalValue = Num(23)
             /\ summary.pnl = Dec(225, 100)

\* the two mock positions, and one whose market is not listed, were valued
\* at 20 and 3
C17_Witness ==
  /\ valuation.calls > 0
  /\ valuation.positions = <<InitPositions[1], OrphanPosition, InitPositions[2]>>
  /\ valuation.markets = QuotedMarkets
  /\ valuation.summary.totalValue = Num(23)

\* C18: calculatePortfolioValue is pure and idempotent: a call changes
\* neither the positions and markets it is given nor the balance, the
\* position ledger or the transaction log, and a call with the arguments of
\* the call before it returns the same result.
C18_Step ==
  valuation'.calls /= valuation.calls =>
    /\ UNCHANGED <<mockUser, mockPositions, mockTransactions>>
    /\ valuation'.positions \in PositionLists
    /\ valuation'.markets \in MarketLists
    /\ valuation'.again => valuation'.summary = valuation.summary

ZeroShareTrade(c, balance) ==
  /\ c.marketId \in KnownMarketIds
  /\ Gt(c.amount, Zero)
  /\ Le(c.amount, balance)
  /\ Lt(Mul(Div(c.amount, TradePrice(c.marketId, c.side)), Hundred), One)

\* C19: a trade whose investment is positive and within the balance but buys
\* less than 0.01 share resolves with shares = 0 and actualCost = 0, leaves
\* the balance as it was, leaves one position for its market and side (a new
\* one of 0 shares, or the old one with its shares and invested amount), and
\* appends one transaction of amount 0.
C19_Step ==
  (TradeSettles /\ ZeroShareTrade(settled'.call, mockUser.balance)) =>
    LET c == settled'.call
        before == PositionsOf(mockPositions, c.marketId, c.side)
        after == PositionsOf(mockPositions', c.marketId, c.side)
    IN  /\ settled'.outcome = "resolved"
        /\ settled'.value.shares = Zero
        /\ settled'.value.actualCost = Zero
        /\ mockUser' = mockUser
        /\ settled'.value.newBalance = mockUser.balance
        /\ Cardinality(after) = 1
        /\ \A i \in after :
             /\ settled'.value.position = mockPositions'[i]
             /\ IF before = {}
                THEN /\ i = Len(mockPositions) + 1
                     /\ mockPositions'[i].shares = Zero
                     /\ mockPositions'[i].invested = Zero
                ELSE /\ i \in before
                     /\ Len(mockPositions') = Len(mockPositions)
                     /\ mockPositions'[i].shares = mockPositions[i].shares
                     /\ mockPositions'[i].invested = mockPositions[i].invested
        /\ Len(mockTransactions') = Len(mockTransactions) + 1
        /\ mockTransactions'[Len(mockTransactions')].type = "trade"
        /\ mockTransactions'[Len(mockTransactions')].amount = Zero

C19_ZeroShareTrade == [][C19_Step]_vars

\* a trade of a positive amount resolved with no share, and its position of
\* 0 shares is in the collection
C19_Witness ==
  /\ TradeResolved
  /\ Gt(settled.call.amount, Zero)
  /\ settled.value.shares = Zero
  /\ settled.value.position.shares = Zero
  /\ mockTransactions[Len(mockTransactions)].amount = Zero

\* C20: addFunds resolves only for an amount between 1 and 10,000 inclusive;
\* for any other amount it is rejected with an error and leaves the balance
\* and totalDeposited as they were.
C20_Step ==
  DepositSettles =>
    LET amount == settled'.call.amount
        inRange == Ge(amount, One) /\ Le(amount, TenThousand)
    IN  /\ settled'.outcome = "resolved" => inRange
        /\ ~inRange =>
             /\ settled'.outcome = "rejected"
             /\ settled'.error /= ""
             /\ mockUser'.balance = mockUser.balance
             /\ mockUser'.totalDeposited = mockUser.totalDeposited

C20_DepositRange == [][C20_Step]_vars

\* C21: whenever a user is signed in and no trade or deposit is in flight,
\* the balance AuthManager holds is the balance placeTrade validates against
\* and deducts from.
C21_SingleBalance ==
  (/\ authManager.currentUser /= Null
   /\ \A c \in pending : c.fn \notin {"placeTrade", "addFunds", "saveUserMetadata"})
  => StrictEq(authManager.currentUser[1].balance, mockUser.balance)


\* what the last step announced
Count(seq, x) == Cardinality({i \in 1..Len(seq) : seq[i] = x})
Announced(kind, name) == Count(notices, Notice(kind, name))

\* C22: every trade submission for which placeTrade succeeds is followed by
\* exactly one dispatch of the completion event and by no error notification.
C22_Step ==
  TradeResolves =>
    /\ Announced("event", "betCompleted")' = 1
    /\ Announced("toast", "error")' = 0
C22_TradeAnnounced == [][C22_Step]_vars


\* the price the trading modal shows for the side it was opened for
ShownPrice(tradeData) ==
  IF tradeData.side = "yes" THEN tradeData.market.yesPrice ELSE tradeData.market.noPrice

\* C23: the price a trade executes at is the price the trading modal shows,
\* which is the current price of the most recent price refresh.
C23_Step ==
  (TradeResolves /\ marketCardManager.currentTradeData /= Null)
    => StrictEq(settled'.value.price, ShownPrice(marketCardManager.currentTradeData[1]))
C23_ExecutionPrice == [][C23_Step]_vars


\* the state logout leaves: nobody signed in, no session stored
LoggedOut == ~authManager.isAuthenticated /\ localStorage = Null

\* C24: once logout has run, the manager stays unauthenticated and no session
\* is stored until the next login, also when an add-funds or a trade that was
\* started before the logout completes after it.
C24_Step ==
  (LoggedOut /\ Announced("event", "userLoggedIn")' = 0) => LoggedOut'
C24_LoggedOutUntilLogin == [][C24_Step]_vars


\* C25: isAuthenticated is true exactly when currentUser is not null, in every
\* reachable state of either AuthManager.
C25_AuthenticatedIffUser ==
  authManager.isAuthenticated <=> authManager.currentUser /= Null


\* clearPortfolio's result: no positions and a zeroed summary
Cleared ==
  portfolioManager.positions = <<>> /\ portfolioManager.portfolioSummary = NoSummary

\* C26: after userLoggedOut has been handled, PortfolioManager holds no
\* positions and a zeroed summary until the next login, also when a
\* loadPortfolio started before the logout resolves after it.  Checked for
\* the step that follows the handling of userLoggedOut.
C26_Step ==
  (Announced("event", "userLoggedOut") > 0 /\ Announced("event", "userLoggedIn")' = 0)
    => Cleared'
C26_ClearedUntilLogin == [][C26_Step]_vars


\* a step that loads the page again
PageLoads == \E elapsed \in ReloadAfter : Reload(elapsed)

\* the stored session can be restored at the time t
Restorable(t) ==
  /\ localStorage /= Null
  /\ localStorage[1].parses
  /\ t - localStorage[1].timestamp < MaxAge

\* C27: loadSession restores a stored session only if its age is strictly
\* less than 24 hours; a session that is 24 hours old or older, or that does
\* not parse, is removed and leaves the manager unauthenticated.
C27_Step ==
  PageLoads =>
    /\ authManager'.isAuthenticated <=> Restorable(now')
    /\ Restorable(now') =>
         /\ authManager'.currentUser = <<localStorage[1].user>>
         /\ localStorage' = localStorage
    /\ ~Restorable(now') =>
         /\ authManager'.currentUser = Null
         /\ localStorage' = Null
C27_LoadSession == [][C27_Step]_vars

\* a session restored one millisecond before it expires
C27_Witness ==
  /\ authManager.isAuthenticated
  /\ localStorage /= Null
  /\ now - localStorage[1].timestamp = MaxAge - 1


\* the market fetches in flight
FetchesInFlight == {c \in pending : c.fn = "fetchMarkets"}

\* C28: at most one market fetch started by loadMarkets is in flight, and
\* isLoading is true exactly while it is; a request made while isLoading is
\* true starts no fetch, and isLoading is false again once the fetch has
\* finished, with markets or with an error.
C28_Loading ==
  /\ Cardinality(FetchesInFlight) <= 1
  /\ app.isLoading <=> FetchesInFlight /= {}
C28_Step ==
  /\ (app.isLoading /\ started' /= started) => FetchesInFlight' = FetchesInFlight
  /\ (FetchesInFlight /= {} /\ FetchesInFlight' = {}) => ~app.isLoading'
C28_OneFetch == []C28_Loading /\ [][C28_Step]_vars

\* a fetch is in flight after MaxRequests requests, none of which has
\* delivered markets
C28_Witness ==
  /\ app.isLoading
  /\ app.currentMarkets = <<>>
  /\ started = MaxRequests
  /\ pending = FetchesInFlight
  /\ ~authManager.isAuthenticated
  /\ app.currentSection = "markets"


\* a step that switches to the markets section
SwitchToMarkets == app.currentSection /= "markets" /\ app'.currentSection = "markets"

\* C29: switching to the markets section starts no fetch when the markets
\* were loaded less than five minutes ago.  The markets shown were loaded
\* since the page was loaded at Now0, and the switch happens at Now0.
C29_Step ==
  (SwitchToMarkets /\ app.currentMarkets /= <<>> /\ now' = Now0)
    => FetchesInFlight' \subseteq FetchesInFlight
C29_FreshMarketsKept == [][C29_Step]_vars


\* the sum of the amounts of the transactions of type trade, added in order
RECURSIVE SumTradeAmounts(_)
SumTradeAmounts(transactions) ==
  IF transactions = <<>> THEN Zero
  ELSE LET last == transactions[Len(transactions)]
           rest == SumTradeAmounts(SubSeq(transactions, 1, Len(transactions) - 1))
       IN  IF last.type = "trade" THEN Add(rest, last.amount) ELSE rest

\* the ledger under small trades: placeTrade is called with investments of one
\* cent and of 3.23 on either side of market 1, and once with an investment
\* placeTrade rejects; addFunds is called as before
SmallInvestments == {Dec(1, 100), InvestmentOf323}

NextLedger ==
  \/ \E side \in Sides : \E investment \in SmallInvestments \cup {Zero} :
       PlaceTradeCall(1, side, investment) /\ UNCHANGED viewVars
  \/ \E c \in pending : PlaceTradeResume(c) /\ UNCHANGED viewVars
  \/ \E amount \in DepositAmounts : AddFundsCall(amount) /\ UNCHANGED viewVars
  \/ \E c \in pending : AddFundsResume(c) /\ UNCHANGED viewVars

SpecLedger == Init /\ [][NextLedger]_vars

====
